---- MODULE Spec2Model ----
(***************************************************************************)
(* A model of the Crossword game: the placement of the words on the grid   *)
(* (src/WordHandler.py, class Words), the construction of the letter tiles *)
(* (src/Main.py, get_word_data wrapped by fill_grid) and the game loop     *)
(* that matches a mouse drag against the placed words (src/Main.py, main). *)
(*                                                                         *)
(* Python values are written as follows.  A grid coordinate (x, y) is the  *)
(* tuple <<x, y>>.  A word is the sequence of its letters, <<"A", "T">>.   *)
(* An orientation "HL" is the sequence <<"H", "L">>, so that Python's      *)
(* orientation[0] is orientation[1] here.  A dict is the sequence of its   *)
(* entries in insertion order, which is the order Python iterates it in.   *)
(***************************************************************************)
EXTENDS Integers, Sequences, FiniteSets, TLC

(***************************************************************************)
(* Bounds of the model.                                                    *)
(***************************************************************************)
\* The largest number of grid squares handed to Words (len(grid_pos)).
MaxSquares == 4
\* The longest word list loaded from the word bank.
MaxWords == 2
\* The most events pygame's queue holds between two ticks of the loop.
MaxEvents == 2
\* The longest selection trace a drag builds.
MaxTrace == 2
\* The most lines "Congrats" the loop is followed through.
MaxCongrats == 3

\* The words of the word bank the construction of Words is checked with:
\* upper-case words.
WordBank == { <<"A">>, <<"I">>, <<"A", "T">>, <<"I", "T">> }

\* The word list the whole game is played with, or a part of it.
GameList == << <<"A", "T">>, <<"I">> >>

\* The word lists __get_words may return from a bank: no word twice.
WordLists(bank) ==
    UNION { { s \in [1..n -> bank] :
                \A i \in 1..n : \A j \in 1..n : i # j => s[i] # s[j] } :
            n \in 0..MaxWords }

\* The word lists the game is played with: the first words of GameList.
GameWordLists ==
    { SubSeq(GameList, 1, n) : n \in { m \in 0..MaxWords : m <= Len(GameList) } }

(***************************************************************************)
(* Program constants.                                                      *)
(***************************************************************************)
\* main: block_size = 50, 50
BlockSize == 50

\* __select_orientation: the list choice() draws from.
ORIENTATIONS == << <<"H", "L">>, <<"H", "R">>, <<"V", "U">>, <<"V", "D">> >>

\* fill_grid: the letters the filler is drawn from ("T" is not among them).
letters ==
    << "A", "B", "C", "D", "E", "F", "G", "H", "I", "J", "K", "L", "M",
       "N", "O", "P", "Q", "R", "S", "U", "V", "W", "X", "Y", "Z" >>

\* The indices of `letters' choice() is let draw: "A" and "U" when Words and
\* the tiles are constructed, "U" when the whole game is played.
FillerDraws == {1, 20}
GameFillerDraws == {20}

VARIABLES
    pc,                 \* where the program is: see Init and the actions
    grid_square_number, \* Words.__init__'s grid_size, len(grid_pos) in main
    self_words,         \* Words.words as loaded by __get_words
    word_list,          \* Words.words after __select_orientation (a dict)
    word_idx,           \* the entry of word_list the for loop of __select_pos is at
    positions,          \* __select_pos: the candidate coordinates of the current word
    occupied_positions, \* __select_pos: the coordinates taken so far
    pos_dict,           \* __select_pos: the mapping built, and Words.final_words
    words,              \* main: the active words (a dict)
    alphabet_data,      \* main: the letter tiles on display
    mouse_drag_pos,     \* main: the selection trace
    drag_event,         \* main: whether a drag is going on
    event_queue,        \* pygame's event queue, read whole by pygame.event.get()
    congrats            \* main: how many times print("Congrats") has run

vars == << pc, grid_square_number, self_words, word_list, word_idx, positions,
           occupied_positions, pos_dict, words, alphabet_data, mouse_drag_pos,
           drag_event, event_queue, congrats >>

setup_vars == << grid_square_number, self_words, word_list, word_idx, positions,
                 occupied_positions, pos_dict >>

play_vars == << words, alphabet_data, mouse_drag_pos, drag_event, event_queue,
               congrats >>

(***************************************************************************)
(* Helpers.                                                                *)
(***************************************************************************)
Range(s) == { s[i] : i \in 1..Len(s) }

Reverse(s) == [i \in 1..Len(s) |-> s[Len(s) + 1 - i]]

\* int(sqrt(n)) for n >= 0.
ISqrt(n) == CHOOSE d \in 0..n : d * d <= n /\ (d + 1) * (d + 1) > n

\* __select_pos: grid_dimension = int(sqrt(grid_square_number))
grid_dimension == ISqrt(grid_square_number)

(***************************************************************************)
(* Words (src/WordHandler.py).                                             *)
(***************************************************************************)
\* A randrange that returns 0 where random.randrange raises ValueError.
RandrangeNeverRaises(n) == IF n <= 0 THEN {0} ELSE 0 .. (n - 1)

\* random.randrange(n): the values it may return.  It raises ValueError when
\* n <= 0, which is when this set is empty.
Randrange(n) == 0 .. (n - 1)

\* A start range one too long: randrange(grid_dimension - word_len + 2).
StartRangeTooLong(dimension, word_len) == Randrange(dimension - word_len + 2)

\* A start range one too short: randrange(grid_dimension - word_len).
StartRangeTooShort(dimension, word_len) == Randrange(dimension - word_len)

\* __select_random_pos: the starting offsets along the placement axis,
\* randrange(grid_dimension - word_len + 1).
StartRange(dimension, word_len) == Randrange(dimension - word_len + 1)

\* __select_random_pos with the vertical branch stepping by 2.
SelectRandomPosWideStep(orientation, dimension, word_len) ==
    IF orientation[1] = "H"
    THEN { [i \in 1..word_len |-> <<x_pos + (i - 1), y_pos>>] :
             y_pos \in Randrange(dimension),
             x_pos \in StartRange(dimension, word_len) }
    ELSE { [i \in 1..word_len |-> <<x_pos, y_pos + 2 * (i - 1)>>] :
             x_pos \in Randrange(dimension),
             y_pos \in StartRange(dimension, word_len) }

\* __select_random_pos: the coordinate lists one call may return.  The set is
\* empty exactly when one of the two randrange calls raises ValueError.
SelectRandomPos(orientation, dimension, word_len) ==
    IF orientation[1] = "H"
    THEN { [i \in 1..word_len |-> <<x_pos + (i - 1), y_pos>>] :
             y_pos \in Randrange(dimension),
             x_pos \in StartRange(dimension, word_len) }
    ELSE IF orientation[1] = "V"
    THEN { [i \in 1..word_len |-> <<x_pos, y_pos + (i - 1)>>] :
             x_pos \in Randrange(dimension),
             y_pos \in StartRange(dimension, word_len) }
    ELSE { <<>> }

\* An overlap check that looks at the first coordinate only.
CollidesFirstOnly(candidate, occupied) ==
    candidate # <<>> /\ candidate[1] \in occupied

\* __select_pos: any(pos in occupied_positions for pos in positions)
Collides(candidate, occupied) ==
    \E i \in 1..Len(candidate) : candidate[i] \in occupied

\* The word the for loop of __select_pos is at.
CurrentEntry == word_list[word_idx]

CandidatesOfCurrent ==
    SelectRandomPos(CurrentEntry.orientation, grid_dimension,
                    Len(CurrentEntry.word))

\* The program starts: main has computed grid_pos and Words.__init__ has
\* loaded the word list.
Start(square_numbers, word_lists) ==
    /\ pc = "select_orientation"
    /\ grid_square_number \in square_numbers
    /\ self_words \in word_lists
    /\ word_list = <<>>
    /\ word_idx = 1
    /\ positions = <<>>
    /\ occupied_positions = {}
    /\ pos_dict = <<>>
    /\ words = <<>>
    /\ alphabet_data = <<>>
    /\ mouse_drag_pos = <<>>
    /\ drag_event = FALSE
    /\ event_queue = <<>>
    /\ congrats = 0

\* __select_orientation: every word of the list gets one of the four
\* orientations; __select_pos then starts with its empty mapping.
SelectOrientation ==
    /\ pc = "select_orientation"
    /\ \E pick \in [1..Len(self_words) -> 1..Len(ORIENTATIONS)] :
         word_list' = [i \in 1..Len(self_words) |->
                         [word |-> self_words[i],
                          orientation |-> ORIENTATIONS[pick[i]]]]
    /\ pc' = "select_pos"
    /\ UNCHANGED << grid_square_number, self_words, word_idx, positions,
                    occupied_positions, pos_dict >>
    /\ UNCHANGED play_vars

\* __select_pos, lines 120-123: the loop takes the next word and draws its
\* first candidate; a ValueError of randrange ends the program.
DrawPos ==
    /\ pc = "select_pos"
    /\ word_idx <= Len(word_list)
    /\ IF CandidatesOfCurrent = {}
       THEN /\ pc' = "error"
            /\ positions' = <<>>
       ELSE /\ pc' = "check_overlap"
            /\ positions' \in CandidatesOfCurrent
    /\ UNCHANGED << grid_square_number, self_words, word_list, word_idx,
                    occupied_positions, pos_dict >>
    /\ UNCHANGED play_vars

\* __select_pos, line 125: the while condition finds the candidate on a taken
\* coordinate, and the loop body is entered.
Overlap ==
    /\ pc = "check_overlap"
    /\ Collides(positions, occupied_positions)
    /\ pc' = "redraw"
    /\ UNCHANGED setup_vars
    /\ UNCHANGED play_vars

\* A retry that also draws the orientation of the word again.
RetryNewOrientation ==
    /\ pc = "redraw"
    /\ \E o \in Range(ORIENTATIONS) :
         /\ word_list' = [word_list EXCEPT ![word_idx].orientation = o]
         /\ positions' \in SelectRandomPos(o, grid_dimension,
                                           Len(CurrentEntry.word))
    /\ pc' = "check_overlap"
    /\ UNCHANGED << grid_square_number, self_words, word_idx,
                    occupied_positions, pos_dict >>
    /\ UNCHANGED play_vars

\* __select_pos, lines 126-128: the candidate is drawn again, with the same
\* orientation, and the while condition is next.
Retry ==
    /\ pc = "redraw"
    /\ positions' \in CandidatesOfCurrent
    /\ pc' = "check_overlap"
    /\ UNCHANGED << grid_square_number, self_words, word_list, word_idx,
                    occupied_positions, pos_dict >>
    /\ UNCHANGED play_vars

\* __select_pos, lines 125 and 129-131: the while condition finds the
\* candidate free, and it is committed.
Commit ==
    /\ pc = "check_overlap"
    /\ ~Collides(positions, occupied_positions)
    /\ occupied_positions' = occupied_positions \cup Range(positions)
    /\ pos_dict' = Append(pos_dict,
                          [word |-> CurrentEntry.word,
                           orientation |-> CurrentEntry.orientation,
                           pos |-> positions])
    /\ word_idx' = word_idx + 1
    /\ positions' = <<>>
    /\ pc' = "select_pos"
    /\ UNCHANGED << grid_square_number, self_words, word_list >>
    /\ UNCHANGED play_vars

(***************************************************************************)
(* The letter tiles (src/Main.py).  A tile is <<letter, <<px, py>>>>: the  *)
(* image of the letter and its position in pixels.                         *)
(***************************************************************************)
\* get_word_data without the reversal of lines 132-133.
WordTilesNeverReversed(entry) ==
    [i \in 1..Len(entry.pos) |->
       << entry.word[i],
          << entry.pos[i][1] * BlockSize, entry.pos[i][2] * BlockSize >> >>]

\* get_word_data, lines 132-138: the tiles of one entry of word_data.
WordTiles(entry) ==
    LET word == IF entry.orientation[2] \in {"R", "D"}
                THEN Reverse(entry.word)
                ELSE entry.word
    IN  [i \in 1..Len(entry.pos) |->
           << word[i],
              << entry.pos[i][1] * BlockSize, entry.pos[i][2] * BlockSize >> >>]

\* get_word_data, the function the decorator wraps: the tiles of every word.
RECURSIVE GetWordTiles(_)
GetWordTiles(word_data) ==
    IF word_data = <<>>
    THEN <<>>
    ELSE WordTiles(Head(word_data)) \o GetWordTiles(Tail(word_data))

\* A filler pass without the test of line 104: every square from the k-th on
\* gets a filler tile.
FillFromEverySquare(result, dimension, k, draw) ==
    result \o [n \in 1..(dimension * dimension - k) |->
                 << letters[draw[k + n - 1]],
                    << ((k + n - 1) \div dimension) * BlockSize,
                       ((k + n - 1) % dimension) * BlockSize >> >>]

\* fill_grid, lines 101-107, from the k-th square on (i = k // dimension,
\* j = k % dimension): a square no tile is at gets the letter drawn for it.
RECURSIVE FillFrom(_, _, _, _)
FillFrom(result, dimension, k, draw) ==
    IF k >= dimension * dimension
    THEN result
    ELSE LET pos == << (k \div dimension) * BlockSize,
                       (k % dimension) * BlockSize >>
         IN  IF \E t \in 1..Len(result) : result[t][2] = pos
             THEN FillFrom(result, dimension, k + 1, draw)
             ELSE FillFrom(Append(result, << letters[draw[k]], pos >>),
                           dimension, k + 1, draw)

\* fill_grid's wrapper: get_word_data as main calls it.
FillGrid(word_data, square_number, draw) ==
    FillFrom(GetWordTiles(word_data), ISqrt(square_number), 0, draw)

\* __select_pos returns its mapping (line 132), which becomes main's words
\* (line 252), and main builds the tiles (lines 253-258).
GetWordData(draws) ==
    /\ pc = "select_pos"
    /\ word_idx > Len(word_list)
    /\ words' = pos_dict
    /\ \E draw \in [0 .. (grid_dimension * grid_dimension - 1) -> draws] :
         alphabet_data' = FillGrid(pos_dict, grid_square_number, draw)
    /\ pc' = "play"
    /\ UNCHANGED << mouse_drag_pos, drag_event, event_queue, congrats >>
    /\ UNCHANGED setup_vars

(***************************************************************************)
(* The game loop (src/Main.py, main).                                      *)
(***************************************************************************)
\* The events the loop looks at.
EventTypes == { "QUIT", "MOUSEBUTTONDOWN", "MOUSEBUTTONUP" }

\* The pixels pygame.mouse.get_pos() is sampled at: pixel (0, 0), the last
\* pixel of every square of the grid, and one pixel to the right of the grid.
MousePositions ==
    LET last == { c * BlockSize + (BlockSize - 1) :
                    c \in 0..(grid_dimension - 1) }
    IN  { << 0, 0 >>, << grid_dimension * BlockSize, 0 >> }
            \cup (last \X last)

\* convert_mouse_pos_to_grid
ConvertMousePosToGrid(mouse_pos, block_size) ==
    << (mouse_pos[1] - (mouse_pos[1] % block_size[1])) \div block_size[1],
       (mouse_pos[2] - (mouse_pos[2] % block_size[2])) \div block_size[2] >>

\* Python's order of tuples (x, y).
TupleLess(a, b) == a[1] < b[1] \/ (a[1] = b[1] /\ a[2] < b[2])

RECURSIVE InsertSorted(_, _)
InsertSorted(sorted, e) ==
    IF sorted = <<>>
    THEN << e >>
    ELSE IF TupleLess(Head(sorted), e)
         THEN << Head(sorted) >> \o InsertSorted(Tail(sorted), e)
         ELSE << e >> \o sorted

\* list.sort() on a list of coordinates.
RECURSIVE SortList(_)
SortList(seq) ==
    IF seq = <<>> THEN <<>> ELSE InsertSorted(SortList(Tail(seq)), Head(seq))

\* An event loop in which QUIT only sets a flag: the events after it are
\* still looked at, and the program ends after the loop.
ProcessEventsQuitAfterLoop(events, drag) ==
    LET buttons == SelectSeq(events,
                             LAMBDA e : e \in {"MOUSEBUTTONDOWN", "MOUSEBUTTONUP"})
    IN  [drag_event |-> IF buttons = <<>>
                        THEN drag
                        ELSE buttons[Len(buttons)] = "MOUSEBUTTONDOWN",
         quit |-> \E q \in 1..Len(events) : events[q] = "QUIT"]

\* main, lines 267-275: the events of one tick, in order.  A QUIT ends the
\* program at once; the events after it are never looked at.
RECURSIVE ProcessEvents(_, _)
ProcessEvents(events, drag) ==
    IF events = <<>>
    THEN [drag_event |-> drag, quit |-> FALSE]
    ELSE IF Head(events) = "QUIT"
         THEN [drag_event |-> drag, quit |-> TRUE]
         ELSE IF Head(events) = "MOUSEBUTTONDOWN"
              THEN ProcessEvents(Tail(events), TRUE)
              ELSE IF Head(events) = "MOUSEBUTTONUP"
                   THEN ProcessEvents(Tail(events), FALSE)
                   ELSE ProcessEvents(Tail(events), drag)

\* main, lines 265-266: the trace is emptied when no drag is going on.
ResetTrace(drag, trace) == IF ~drag THEN <<>> ELSE trace

\* The recording of the mouse without the membership test of line 281.
RecordMouseAlwaysAppends(drag, trace, mouse_pos) ==
    IF drag
    THEN SortList(Append(trace,
                         ConvertMousePosToGrid(mouse_pos,
                                               << BlockSize, BlockSize >>)))
    ELSE trace

\* The recording of the mouse without the sort of line 284.
RecordMouseUnsorted(drag, trace, mouse_pos) ==
    IF drag
    THEN LET mouse_grid_pos ==
                 ConvertMousePosToGrid(mouse_pos, << BlockSize, BlockSize >>)
         IN  IF mouse_grid_pos \in Range(trace)
             THEN trace
             ELSE Append(trace, mouse_grid_pos)
    ELSE trace

\* main, lines 277-284: the square under the mouse joins the trace, which is
\* then sorted.
RecordMouse(drag, trace, mouse_pos) ==
    IF drag
    THEN LET mouse_grid_pos ==
                 ConvertMousePosToGrid(mouse_pos, << BlockSize, BlockSize >>)
         IN  SortList(IF mouse_grid_pos \in Range(trace)
                      THEN trace
                      ELSE Append(trace, mouse_grid_pos))
    ELSE trace

\* A loop that removes tiles after every drag, matched or not.
MatchesWordAlways(trace, active) == TRUE

\* main, line 287: any(mouse_drag_pos == word_data for word_data in words.values())
MatchesWord(trace, active) == \E k \in 1..Len(active) : active[k].pos = trace

\* A removal that drops the word inserted last, whichever word matched.
RemainingWordsDropLast(active, trace) == SubSeq(active, 1, Len(active) - 1)

\* main, lines 288-292: the words whose coordinates are not the trace.
RemainingWords(active, trace) ==
    SelectSeq(active, LAMBDA entry : entry.pos # trace)

\* main, lines 294-299, for one square of the trace, from index i on: the list
\* is enumerated while tiles are popped from it.
RECURSIVE PopTilesAt(_, _, _)
PopTilesAt(data, square, i) ==
    IF i > Len(data)
    THEN data
    ELSE IF square = << data[i][2][1] \div BlockSize,
                        data[i][2][2] \div BlockSize >>
         THEN PopTilesAt(SubSeq(data, 1, i - 1) \o SubSeq(data, i + 1, Len(data)),
                         square, i + 1)
         ELSE PopTilesAt(data, square, i + 1)

\* A removal that stops after the first square of the trace.
RemoveTilesFirstOnly(data, trace) ==
    IF trace = <<>> THEN data ELSE PopTilesAt(data, Head(trace), 1)

\* main, lines 293-299: the tiles left when those of the trace are popped.
RECURSIVE RemoveTiles(_, _)
RemoveTiles(data, trace) ==
    IF trace = <<>>
    THEN data
    ELSE RemoveTiles(PopTilesAt(data, Head(trace), 1), Tail(trace))

\* main, lines 300-301: print("Congrats") when no word is active.
ReportCompletion(active, printed) ==
    IF active = <<>> THEN printed + 1 ELSE printed

\* The user presses or releases a mouse button, or closes the window: pygame
\* queues the event.
PostEvent ==
    /\ pc = "play"
    /\ Len(event_queue) < MaxEvents
    /\ \E e \in EventTypes : event_queue' = Append(event_queue, e)
    /\ UNCHANGED << pc, words, alphabet_data, mouse_drag_pos, drag_event,
                    congrats >>
    /\ UNCHANGED setup_vars

\* main, lines 263-302: one pass of the loop.
Tick ==
    /\ pc = "play"
    /\ event_queue' = <<>>
    /\ \E mouse_pos \in MousePositions :
         LET reset == ResetTrace(drag_event, mouse_drag_pos)
             after == ProcessEvents(event_queue, drag_event)
             trace == RecordMouse(after.drag_event, reset, mouse_pos)
         IN  /\ Len(trace) <= MaxTrace
             /\ drag_event' = after.drag_event
             /\ IF after.quit
                THEN /\ pc' = "exited"
                     /\ mouse_drag_pos' = reset
                     /\ UNCHANGED << words, alphabet_data, congrats >>
                ELSE /\ pc' = "play"
                     /\ mouse_drag_pos' = trace
                     /\ IF ~after.drag_event /\ trace # <<>>
                           /\ MatchesWord(trace, words)
                        THEN /\ words' = RemainingWords(words, trace)
                             /\ alphabet_data' = RemoveTiles(alphabet_data, trace)
                        ELSE UNCHANGED << words, alphabet_data >>
                     /\ congrats' = ReportCompletion(words', congrats)
                     /\ congrats' <= MaxCongrats
    /\ UNCHANGED setup_vars

Next ==
    \/ SelectOrientation
    \/ DrawPos
    \/ Overlap
    \/ Retry
    \/ Commit
    \/ GetWordData(GameFillerDraws)
    \/ PostEvent
    \/ Tick

Init == Start({ MaxSquares }, GameWordLists)

\* The whole game, played with the words of GameList on the largest grid.
Spec == Init /\ [][Next]_vars

SetupInit == Start(1..MaxSquares, WordLists(WordBank))

SetupNext ==
    \/ SelectOrientation
    \/ DrawPos
    \/ Overlap
    \/ Retry
    \/ Commit
    \/ GetWordData(FillerDraws)

\* The construction of Words and of the tiles, with the words of WordBank.
SetupSpec == SetupInit /\ [][SetupNext]_vars

(***************************************************************************)
(* Properties of the placement (Words.__select_pos).                       *)
(***************************************************************************)
\* __select_pos has returned its mapping: main holds it.
Returned == pc \in { "play", "exited" }

Coordinates(entry) == Range(entry.pos)

InGrid(square) ==
    /\ 0 <= square[1] /\ square[1] < grid_dimension
    /\ 0 <= square[2] /\ square[2] < grid_dimension

\* C1: whenever __select_pos has returned, no grid coordinate is in the
\* coordinate lists of two different entries of the mapping it returned.
C1_GlobalDisjointness ==
    Returned =>
        \A a \in 1..Len(pos_dict) : \A b \in 1..Len(pos_dict) :
            a # b => Coordinates(pos_dict[a]) \cap Coordinates(pos_dict[b]) = {}

\* C1's case: two two-letter words were placed on the 2 x 2 grid, which they
\* fill, and the mapping was returned.
C1_Witness ==
    /\ Returned
    /\ grid_dimension = 2
    /\ Len(pos_dict) = 2
    /\ Len(pos_dict[1].pos) = 2
    /\ Len(pos_dict[2].pos) = 2

\* C2: every coordinate __select_random_pos produces for a word that fits the
\* grid, and so every coordinate of every committed placement, lies in
\* [0, dim) x [0, dim).
C2_InBounds ==
    /\ \A i \in 1..Len(positions) : InGrid(positions[i])
    /\ \A k \in 1..Len(pos_dict) :
         \A i \in 1..Len(pos_dict[k].pos) : InGrid(pos_dict[k].pos[i])

\* C2's case: a committed two-letter placement whose last coordinate is on
\* the far edge of the grid.
C2_Witness ==
    \E k \in 1..Len(pos_dict) :
        /\ Len(pos_dict[k].word) = 2
        /\ Len(pos_dict[k].word) <= grid_dimension
        /\ pos_dict[k].pos[2][1] = grid_dimension - 1

\* C3: a committed placement has one coordinate per letter; a horizontal one
\* keeps y and has x = start, start + 1, ... in list order; a vertical one
\* keeps x and has y rising by 1 in list order.
C3_ContiguousPlacement ==
    \A k \in 1..Len(pos_dict) :
        LET entry == pos_dict[k]
        IN  /\ Len(entry.pos) = Len(entry.word)
            /\ entry.orientation[1] = "H" =>
                 \A i \in 1..Len(entry.pos) :
                     /\ entry.pos[i][2] = entry.pos[1][2]
                     /\ entry.pos[i][1] = entry.pos[1][1] + (i - 1)
            /\ entry.orientation[1] = "V" =>
                 \A i \in 1..Len(entry.pos) :
                     /\ entry.pos[i][1] = entry.pos[1][1]
                     /\ entry.pos[i][2] = entry.pos[1][2] + (i - 1)

\* C3's case: a horizontal one-letter placement and a vertical two-letter
\* placement are committed.
C3_Witness ==
    /\ Len(pos_dict) = 2
    /\ pos_dict[1].orientation[1] = "H"
    /\ pos_dict[2].orientation[1] = "V"
    /\ Len(pos_dict[2].pos) = 2
    /\ pos_dict[2].pos[2][2] = pos_dict[2].pos[1][2] + 1

\* The letters of the word list, and the squares of the grid.
RECURSIVE TotalLetters(_)
TotalLetters(word_seq) ==
    IF word_seq = <<>> THEN 0 ELSE Len(Head(word_seq)) + TotalLetters(Tail(word_seq))

Overpacked == TotalLetters(self_words) > grid_dimension * grid_dimension

\* The construction of Words under fair scheduling: the program takes its next
\* step whenever it has one, and a draw that can return a free candidate
\* does not return a taken one for ever.
FairSetupSpec ==
    /\ SetupInit
    /\ [][SetupNext]_vars
    /\ WF_vars(SetupNext)
    /\ SF_vars(Retry /\ ~Collides(positions', occupied_positions))

\* C4: given a word list with more letters than the grid has squares, setup
\* ends in an error; it does not stay in the retry loop for ever.
C4_OverpackedSetupFails == Overpacked ~> (pc = "error")

\* The too-long words of the list: longer than the grid dimension.
TooLong(k) == Len(word_list[k].word) > grid_dimension

\* C5: a word longer than the grid dimension gets no candidate and no
\* placement, the loop never passes it, and when the loop reaches it the next
\* step of setup is the error.
C5_TooLongWordIsAnError ==
    /\ [](\A k \in 1..Len(word_list) :
            TooLong(k) =>
              /\ word_idx <= k
              /\ word_idx = k => pc \in { "select_pos", "error" } /\ positions = <<>>
              /\ \A e \in 1..Len(pos_dict) : pos_dict[e].word # word_list[k].word
              /\ ~Returned)
    /\ [][(pc = "select_pos" /\ word_idx <= Len(word_list) /\ TooLong(word_idx))
            => pc' = "error"]_vars

\* C5's case: a word was placed, the next word is too long, and setup has
\* ended in the error.
C5_Witness ==
    /\ pc = "error"
    /\ word_idx = 2
    /\ Len(pos_dict) = 1
    /\ TooLong(2)

\* The starting offset of a candidate along its axis, and its other coordinate.
StartOf(entry, candidate) ==
    IF entry.orientation[1] = "H" THEN candidate[1][1] ELSE candidate[1][2]

CrossOf(entry, candidate) ==
    IF entry.orientation[1] = "H" THEN candidate[1][2] ELSE candidate[1][1]

\* C6 as claimed: the starting offsets drawn are those of [0, dim - len).
C6_StartBelowDimMinusLen ==
    pc = "check_overlap" =>
        /\ 0 <= StartOf(CurrentEntry, positions)
        /\ StartOf(CurrentEntry, positions)
             <= grid_dimension - Len(CurrentEntry.word) - 1

\* C6 as amended: the starting offsets __select_random_pos can draw are
\* exactly those of [0, dim - len], and the other coordinate is drawn from
\* [0, dim).
C6_StartUpToDimMinusLen ==
    /\ pc = "check_overlap" =>
         /\ StartOf(CurrentEntry, positions)
              \in 0 .. (grid_dimension - Len(CurrentEntry.word))
         /\ CrossOf(CurrentEntry, positions) \in 0 .. (grid_dimension - 1)
    /\ (pc = "select_pos" /\ word_idx <= Len(word_list) /\ ~TooLong(word_idx)) =>
         /\ { StartOf(CurrentEntry, c) : c \in CandidatesOfCurrent }
              = 0 .. (grid_dimension - Len(CurrentEntry.word))
         /\ { CrossOf(CurrentEntry, c) : c \in CandidatesOfCurrent }
              = 0 .. (grid_dimension - 1)

\* C6's case: a word as long as the grid dimension has been given its only
\* start, 0 = dim - len.
C6_Witness ==
    /\ pc = "check_overlap"
    /\ Len(CurrentEntry.word) = 2
    /\ grid_dimension = 2
    /\ StartOf(CurrentEntry, positions) = grid_dimension - Len(CurrentEntry.word)

(***************************************************************************)
(* Properties of the tiles and of the game loop.                           *)
(***************************************************************************)
\* The tiles of the list that are on a grid square.
TilesAt(data, square) ==
    { t \in 1..Len(data) :
        data[t][2] = << square[1] * BlockSize, square[2] * BlockSize >> }

\* The letters read off the tiles at the coordinates of a placement, in list
\* order (each coordinate carries one tile).
LettersAlong(data, coords) ==
    [i \in 1..Len(coords) |-> data[CHOOSE t \in TilesAt(data, coords[i]) : TRUE][1]]

\* C7: for each of the four orientations, the letters get_word_data gives the
\* coordinates of a placement, read in list order for HL and VU and in
\* reverse list order for HR and VD, are the word.
C7_ReadBackIsTheWord ==
    pc = "play" =>
        \A k \in 1..Len(words) :
            LET entry == words[k]
            IN  /\ \A i \in 1..Len(entry.pos) :
                     Cardinality(TilesAt(alphabet_data, entry.pos[i])) = 1
                /\ entry.orientation \in { <<"H", "L">>, <<"V", "U">> } =>
                     LettersAlong(alphabet_data, entry.pos) = entry.word
                /\ entry.orientation \in { <<"H", "R">>, <<"V", "D">> } =>
                     LettersAlong(alphabet_data, Reverse(entry.pos)) = entry.word

\* C7's case: the tiles are built for a word that is no palindrome, placed
\* from the right, and for a second word placed from the left.
C7_Witness ==
    /\ pc = "play"
    /\ Len(words) = 2
    /\ words[1].word = <<"A", "T">>
    /\ words[1].orientation = <<"H", "R">>
    /\ words[2].word = <<"I", "T">>
    /\ words[2].orientation = <<"H", "L">>

\* A pass of the loop in which the loop sees a drag end: drag_event was set
\* and is cleared, so the trace built by the earlier passes is compared.
DragEndTick == pc = "play" /\ pc' = "play" /\ drag_event /\ ~drag_event'

\* C8: at drag-end the trace matches an active placement, which is then
\* removed, if and only if the set of squares of the trace is the set of
\* that placement's coordinates, whatever the order they were visited in.
C8_MatchIsSetEquality ==
    [][DragEndTick =>
         \A k \in 1..Len(words) :
             (words[k] \notin Range(words'))
                 <=> (Range(mouse_drag_pos) = Coordinates(words[k]))]_vars

\* C8's case: the drag that just ended held the two squares of a two-letter
\* word, which is no longer active, while the other word still is.
C8_Witness ==
    /\ pc = "play"
    /\ ~drag_event
    /\ Len(mouse_drag_pos) = 2
    /\ Len(words) = 1
    /\ \E k \in 1..Len(pos_dict) :
         /\ pos_dict[k].pos = mouse_drag_pos
         /\ pos_dict[k] \notin Range(words)

\* The active words without the k-th.
WithoutEntry(active, k) == SubSeq(active, 1, k - 1) \o SubSeq(active, k + 1, Len(active))

\* C9: during play a pass of the loop either leaves the active words as they
\* are or, on a match, removes the one entry whose coordinates are the trace
\* and leaves every other entry as it is; a match always removes its entry.
C9_MatchRemovesExactlyOne ==
    [][pc = "play" =>
         /\ words' # words =>
              /\ DragEndTick
              /\ \E k \in 1..Len(words) :
                   /\ words[k].pos = mouse_drag_pos
                   /\ words' = WithoutEntry(words, k)
         /\ (DragEndTick /\ \E k \in 1..Len(words) : words[k].pos = mouse_drag_pos)
              => Len(words') = Len(words) - 1]_vars

\* C9's case: of two placed words the first was matched and removed, the
\* second is still active.
C9_Witness ==
    /\ pc = "play"
    /\ Len(pos_dict) = 2
    /\ words = << pos_dict[2] >>

\* A pass of the loop: it empties the event queue, which PostEvent only fills.
TickStep == pc = "play" /\ event_queue' = <<>>

\* The trace while the events of a pass are looked at (lines 265-266 are done).
TraceInTick == ResetTrace(drag_event, mouse_drag_pos)

\* What the loop has made of the events before the i-th of the queue.
BeforeEvent(i) == ProcessEvents(SubSeq(event_queue, 1, i - 1), drag_event)

\* The i-th event of the queue ends a drag: the button is released while a
\* drag is going on.
DragEndsAt(i) ==
    /\ event_queue[i] = "MOUSEBUTTONUP"
    /\ ~BeforeEvent(i).quit
    /\ BeforeEvent(i).drag_event

\* The j-th event of the queue starts a gesture: the button is pressed while
\* no drag is going on.
GestureStartsAt(j) ==
    /\ event_queue[j] = "MOUSEBUTTONDOWN"
    /\ ~BeforeEvent(j).quit
    /\ ~BeforeEvent(j).drag_event

\* C10: when a drag ends with a trace that equals no active placement (an
\* empty trace included), the pass leaves the active words and the tiles as
\* they are, and the trace is empty when the next gesture starts.
C10_NoMatchChangesNothing ==
    [][TickStep =>
         /\ \A i \in 1..Len(event_queue) :
              (DragEndsAt(i) /\ ~MatchesWord(TraceInTick, words)) =>
                  /\ words' = words
                  /\ alphabet_data' = alphabet_data
                  /\ \A j \in (i + 1)..Len(event_queue) :
                       GestureStartsAt(j) => TraceInTick = <<>>
         /\ (~drag_event /\ \E j \in 1..Len(event_queue) : GestureStartsAt(j))
              => TraceInTick = <<>>]_vars

\* C11: whatever button events and pointer samples arrive (several button
\* events in one pass included), the trace is empty when a gesture starts,
\* the end of a drag has the trace gathered since its start compared with the
\* active placements (a trace that equals one removes it), and a pass that
\* begins after the comparison holds nothing of the old trace.
C11_TraceNeverOutlivesItsGesture ==
    [][TickStep =>
         /\ \A j \in 1..Len(event_queue) :
              GestureStartsAt(j) => TraceInTick = <<>>
         /\ \A i \in 1..Len(event_queue) :
              (DragEndsAt(i) /\ pc' = "play"
                 /\ \E k \in 1..Len(words) : words[k].pos = mouse_drag_pos)
                  => \E k \in 1..Len(words) :
                        /\ words[k].pos = mouse_drag_pos
                        /\ words' = WithoutEntry(words, k)
         /\ ~drag_event => Len(mouse_drag_pos') <= 1]_vars

\* C12: over a run of the loop completion is reported exactly once: after the
\* pass that reported it, no later pass prints "Congrats" again.
C12_CompletionReportedOnce ==
    [][(pc = "play" /\ congrats >= 1) => congrats' = congrats]_vars

\* C13: once no word is active none becomes active again, and a pass of the
\* loop, whatever drag ends in it, removes no tile: no drag is taken for a
\* match any more.
C13_EmptyStaysEmpty ==
    [][(pc = "play" /\ words = <<>>) =>
           /\ words' = <<>>
           /\ alphabet_data' = alphabet_data]_vars

\* C13's case: after the last word was matched a later gesture was dragged
\* over the squares of a former placement and has ended.
C13_Witness ==
    /\ pc = "play"
    /\ words = <<>>
    /\ congrats = MaxCongrats
    /\ ~drag_event
    /\ \E k \in 1..Len(pos_dict) : pos_dict[k].pos = mouse_drag_pos

\* A pass of the loop in which the k-th active word is matched and removed.
MatchTick(k) ==
    /\ pc = "play"
    /\ k \in 1..Len(words)
    /\ words' = WithoutEntry(words, k)

\* C14: on a match the tile list loses the tiles on the coordinates of the
\* matched placement, one for each letter and none left behind, and keeps
\* every other tile, in the order and with the letter and position it had.
C14_MatchRemovesItsTilesOnly ==
    [][\A k \in 1..Len(words) :
          MatchTick(k) =>
              /\ alphabet_data' =
                     SelectSeq(alphabet_data,
                               LAMBDA tile :
                                   \A c \in Coordinates(words[k]) :
                                       tile[2] # << c[1] * BlockSize,
                                                    c[2] * BlockSize >>)
              /\ Len(alphabet_data') = Len(alphabet_data) - Len(words[k].word)
              /\ \A c \in Coordinates(words[k]) :
                     /\ Cardinality(TilesAt(alphabet_data, c)) = 1
                     /\ TilesAt(alphabet_data', c) = {}]_vars

\* C14's case: the two-letter word was matched, its two tiles are gone, the
\* tile of the other word and the filler tile are still in the list.
C14_Witness ==
    /\ pc = "play"
    /\ Len(pos_dict) = 2
    /\ Len(pos_dict[1].word) = 2
    /\ words = << pos_dict[2] >>
    /\ Len(alphabet_data) = MaxSquares - 2
    /\ \A c \in Coordinates(pos_dict[1]) : TilesAt(alphabet_data, c) = {}
    /\ \A c \in Coordinates(pos_dict[2]) : TilesAt(alphabet_data, c) # {}

\* The coordinates of a candidate lie along the axis of an orientation.
AlongAxis(candidate, orientation) ==
    \A i \in 1..Len(candidate) :
        IF orientation[1] = "H"
        THEN candidate[i][2] = candidate[1][2]
        ELSE candidate[i][1] = candidate[1][1]

\* C15: while __select_pos runs, the occupied set is the union of the
\* coordinates of the committed placements and only grows; the orientations
\* chosen beforehand never change, so a collision has only the position
\* drawn again, along the axis of the word's orientation; and a committed
\* placement is neither modified nor removed while later words are placed.
C15_RetryKeepsOrientationAndCommits ==
    /\ [](occupied_positions =
             UNION { Coordinates(pos_dict[k]) : k \in 1..Len(pos_dict) })
    /\ [][/\ pc # "select_orientation" => word_list' = word_list
          /\ pc = "redraw" =>
                /\ AlongAxis(positions', CurrentEntry.orientation)
                /\ Len(positions') = Len(CurrentEntry.word)
                /\ pos_dict' = pos_dict
                /\ occupied_positions' = occupied_positions
                /\ word_idx' = word_idx
          /\ occupied_positions \subseteq occupied_positions'
          /\ Len(pos_dict) <= Len(pos_dict')
          /\ \A k \in 1..Len(pos_dict) : pos_dict'[k] = pos_dict[k]]_vars

\* C15's case: with a placement committed, the candidate of the next word
\* collides with it and is about to be drawn again.
C15_Witness ==
    /\ pc = "redraw"
    /\ Len(pos_dict) = 1
    /\ Len(CurrentEntry.word) = 2
    /\ Collides(positions, occupied_positions)

\* The squares of the grid.
GridSquares == (0..(grid_dimension - 1)) \X (0..(grid_dimension - 1))

\* The letter a placement shows on the i-th coordinate of its list.
LetterShown(entry, i) ==
    IF entry.orientation \in { <<"H", "R">>, <<"V", "D">> }
    THEN entry.word[Len(entry.word) + 1 - i]
    ELSE entry.word[i]

\* C16: after setup every square of the grid carries exactly one tile, and
\* the list has no other tile; a square of a placement carries the letter of
\* the word that belongs there, and a square of no placement carries one of
\* the filler letters.
C16_OneTilePerSquare ==
    pc = "play" =>
        /\ Len(alphabet_data) = grid_dimension * grid_dimension
        /\ \A square \in GridSquares :
              /\ Cardinality(TilesAt(alphabet_data, square)) = 1
              /\ \A t \in TilesAt(alphabet_data, square) :
                    IF \E k \in 1..Len(pos_dict) : square \in Coordinates(pos_dict[k])
                    THEN \E k \in 1..Len(pos_dict) :
                           \E i \in 1..Len(pos_dict[k].pos) :
                               /\ pos_dict[k].pos[i] = square
                               /\ alphabet_data[t][1] = LetterShown(pos_dict[k], i)
                    ELSE alphabet_data[t][1] \in Range(letters)

\* C16's case: setup is over on a grid of four squares with a two-letter
\* placement, and the two squares left got different filler letters.
C16_Witness ==
    /\ pc = "play"
    /\ grid_dimension = 2
    /\ Len(pos_dict) = 1
    /\ Len(pos_dict[1].word) = 2
    /\ \E s1 \in GridSquares, s2 \in GridSquares :
          /\ s1 # s2
          /\ {s1, s2} \cap Coordinates(pos_dict[1]) = {}
          /\ \E t1 \in TilesAt(alphabet_data, s1), t2 \in TilesAt(alphabet_data, s2) :
                alphabet_data[t1][1] # alphabet_data[t2][1]

\* No coordinate is twice in a list.
NoDuplicate(list) ==
    \A i \in 1..Len(list) : \A j \in 1..Len(list) : i # j => list[i] # list[j]

\* C17: at the end of every pass of the loop the trace holds no coordinate
\* twice; a pass of a drag that goes on adds at most the one square under the
\* mouse to the trace, and leaves the trace as it is when that square is
\* already in it.
C17_TraceHasNoDuplicate ==
    /\ [](NoDuplicate(mouse_drag_pos))
    /\ [][(TickStep /\ drag_event /\ drag_event') =>
             /\ Range(mouse_drag_pos) \subseteq Range(mouse_drag_pos')
             /\ Cardinality(Range(mouse_drag_pos')) <=
                    Cardinality(Range(mouse_drag_pos)) + 1
             /\ Range(mouse_drag_pos') = Range(mouse_drag_pos)
                    => mouse_drag_pos' = mouse_drag_pos]_vars

\* C17's case: a drag is going on and has gone over two squares.
C17_Witness ==
    /\ pc = "play"
    /\ drag_event
    /\ Len(mouse_drag_pos) = MaxTrace
    /\ Cardinality(Range(mouse_drag_pos)) = MaxTrace

\* The queue holds a QUIT, and its first one is the q-th event.
FirstQuitAt(q) ==
    /\ q \in 1..Len(event_queue)
    /\ event_queue[q] = "QUIT"
    /\ \A p \in 1..(q - 1) : event_queue[p] # "QUIT"

\* Whether the button is held once the events before the q-th are applied.
HeldBefore(q) ==
    LET buttons == { p \in 1..(q - 1) :
                       event_queue[p] \in {"MOUSEBUTTONDOWN", "MOUSEBUTTONUP"} }
    IN  IF buttons = {}
        THEN drag_event
        ELSE event_queue[CHOOSE p \in buttons : \A r \in buttons : r <= p]
                 = "MOUSEBUTTONDOWN"

\* C18: whether the loop is idle, in a drag or has reported completion, the
\* pass that finds a QUIT in the queue ends the program: it removes no word
\* and no tile, even when a drag has just ended on the coordinates of an
\* active word, it prints nothing, the button events after the QUIT have no
\* effect, and nothing happens once the program has ended.
C18_QuitEndsTheLoopAtOnce ==
    [][/\ \A q \in 1..Len(event_queue) :
             (TickStep /\ FirstQuitAt(q)) =>
                 /\ pc' = "exited"
                 /\ words' = words
                 /\ alphabet_data' = alphabet_data
                 /\ congrats' = congrats
                 /\ drag_event' = HeldBefore(q)
       /\ pc = "exited" => FALSE]_vars

\* C18's case: the program has ended in the pass in which a drag over the
\* coordinates of an active word ended, and the word is still active.
C18_Witness ==
    /\ pc = "exited"
    /\ ~drag_event
    /\ \E k \in 1..Len(words) : words[k].pos = mouse_drag_pos

====
